---- MODULE Spec2Model ----
(***************************************************************************)
(* Model of scripts/vnet_route_check.py: the VNET route consistency check  *)
(* between APP_DB, ASIC_DB and the vendor SDK.                             *)
(*                                                                         *)
(* Conventions                                                             *)
(*  - A Python dict is a TLA+ function; {} is the function with the empty  *)
(*    domain.  A Python list is a sequence.                                *)
(*  - A route prefix "<addr>/<len>" is the record [addr, len]; two         *)
(*    prefixes are equal exactly when the strings are equal.               *)
(*  - Database keys are modelled after the split()/index step the code     *)
(*    applies to them; the tokens used are already lower case, so the      *)
(*    lower() of get_vnet_routes_from_asic_db leaves them as they are.     *)
(*  - The script is run by the "python" of its shebang line (Python 2):    *)
(*    dict.items() is a snapshot list, so popping a key while looping over *)
(*    items() is allowed; a list that is modified while a for loop walks   *)
(*    it is walked by index.                                               *)
(***************************************************************************)
EXTENDS Integers, Sequences, FiniteSets, TLC

\* ------------------------------------------------------------------------
\* Program constants
\* ------------------------------------------------------------------------
RC_OK == 0
RC_ERR == -1
\* syslog.LOG_ERR
LOG_ERR == 3
report_level == LOG_ERR
\* exit status of the interpreter when an exception is not caught
UncaughtExceptionStatus == 1

\* ------------------------------------------------------------------------
\* Bounds
\* ------------------------------------------------------------------------
\* longest list of VNET route keys read from APP_DB
MaxAppKeys == 2
\* longest list of route entry keys read from ASIC_DB
MaxAsicKeys == 3
\* longest route list of one network in the inputs of the diff
MaxDiffRoutes == 2
\* longest route list of one network in the inputs of the filter
MaxFilterRoutes == 3
\* largest exit code of the SDK validator process
MaxExitCode == 1

\* ------------------------------------------------------------------------
\* Generic helpers
\* ------------------------------------------------------------------------
Range(s) == { s[i] : i \in 1..Len(s) }

EmptyDict == << >>

\* all sequences over S of length lo..hi
SeqsOf(S, lo, hi) == UNION { [1..n -> S] : n \in lo..hi }

Occurrences(s, x) == Cardinality({ i \in 1..Len(s) : s[i] = x })

Injective(s) == \A i, j \in 1..Len(s) : s[i] = s[j] => i = j

Pfx(a, l) == [addr |-> a, len |-> l]

\* ------------------------------------------------------------------------
\* Topology read from CONFIG_DB, COUNTERS_DB and ASIC_DB
\* ------------------------------------------------------------------------
\* { <vnet_name>: [ <vnet_rif_name> ] }
get_vnet_intfs ==
    ("Vnet1" :> <<"Ethernet0", "Vlan100">>) @@ ("Vnet2" :> <<"Ethernet4">>)

\* { <vnet_rif_name>: <vrf_oid> }
get_vrf_entries ==
    ("Ethernet0" :> "oid:0x3000000000001") @@
    ("Vlan100" :> "oid:0x3000000000001") @@
    ("Ethernet4" :> "oid:0x3000000000002")

\* the virtual router of the routes that belong to no VNET
DefaultVrfOid == "oid:0x3000000000000"

\* vnet_intfs = [val for sublist in vnet_intfs for val in sublist]
flat_vnet_intfs == UNION { Range(get_vnet_intfs[k]) : k \in DOMAIN get_vnet_intfs }

\* vnet_vrfs_oids = [vnet_vrfs[k] for k in vnet_vrfs]
vnet_vrfs_oids == { get_vrf_entries[k] : k \in DOMAIN get_vrf_entries }

\* vrf_oid_to_vnet_map[vrf_oid] = vnet_name, for every RIF of the VNET
vrf_oid_to_vnet_map ==
    [ vrf_oid \in vnet_vrfs_oids |->
        CHOOSE vnet_name \in DOMAIN get_vnet_intfs :
            \E vnet_rif \in DOMAIN get_vrf_entries :
                /\ vnet_rif \in Range(get_vnet_intfs[vnet_name])
                /\ get_vrf_entries[vnet_rif] = vrf_oid ]

\* ------------------------------------------------------------------------
\* filter_out_vnet_ip2me_routes
\* ------------------------------------------------------------------------
\* str.replace('/24', '/32') on "<addr>/<len>"
replace_24_32(pfx) == IF pfx.len = 24 THEN [pfx EXCEPT !.len = 32] ELSE pfx

\* the list vnet_ip2me_routes built from the INTF_TABLE keys; a key is the
\* result of rif.split(':'): <<name>> or <<name, prefix>>.  The list is only
\* used for membership tests, so it is kept as a set.
build_vnet_ip2me_routes(all_rifs_db_keys) ==
    { replace_24_32(rif_attrs[2]) :
        rif_attrs \in { k \in all_rifs_db_keys :
                          Len(k) # 1 /\ k[1] \in flat_vnet_intfs } }

\* list.remove(x): drops the first element equal to x
list_remove(l, x) ==
    LET first == CHOOSE i \in 1..Len(l) :
                    l[i] = x /\ \A j \in 1..(i - 1) : l[j] # x
    IN  [ k \in 1..(Len(l) - 1) |-> IF k < first THEN l[k] ELSE l[k + 1] ]

\* for route in routes: if route in vnet_ip2me_routes: routes.remove(route)
\* The for loop walks the list by index (i is the 1-based position of the
\* next element) while remove() shortens the very same list.
RECURSIVE remove_ip2me_loop(_, _, _)
remove_ip2me_loop(routes, i, ip2me) ==
    IF i > Len(routes) THEN routes
    ELSE IF routes[i] \in ip2me
         THEN remove_ip2me_loop(list_remove(routes, routes[i]), i + 1, ip2me)
         ELSE remove_ip2me_loop(routes, i + 1, ip2me)

\* the route set left in vnet_routes by filter_out_vnet_ip2me_routes
filter_out_vnet_ip2me_routes(vnet_routes, all_rifs_db_keys) ==
    LET ip2me == build_vnet_ip2me_routes(all_rifs_db_keys)
        walked == [ vnet \in DOMAIN vnet_routes |->
                      [ vnet_routes[vnet] EXCEPT
                          !.routes = remove_ip2me_loop(@, 1, ip2me) ] ]
        kept == { vnet \in DOMAIN vnet_routes : walked[vnet].routes # << >> }
    IN  [ vnet \in kept |-> walked[vnet] ]

\* ------------------------------------------------------------------------
\* get_vnet_routes_from_app_db
\* ------------------------------------------------------------------------
\* one iteration of the loop over the keys; a key is the result of
\* vnet_route_db_key.split(':'): [vnet, route]
app_db_key_step(vnet_routes, key) ==
    LET intf == get_vnet_intfs[key.vnet][1]
        base == IF key.vnet \notin DOMAIN vnet_routes
                THEN vnet_routes @@
                     (key.vnet :> [ routes |-> << >>,
                                    vrf_oid |-> IF intf \in DOMAIN get_vrf_entries
                                                THEN get_vrf_entries[intf]
                                                ELSE "None" ])
                ELSE vnet_routes
    IN  [ base EXCEPT ![key.vnet].routes = Append(@, key.route) ]

RECURSIVE app_db_loop(_, _, _)
app_db_loop(vnet_routes, keys, i) ==
    IF i > Len(keys) THEN vnet_routes
    ELSE app_db_loop(app_db_key_step(vnet_routes, keys[i]), keys, i + 1)

get_vnet_routes_from_app_db(vnet_routes_db_keys) ==
    app_db_loop(EmptyDict, vnet_routes_db_keys, 1)

\* ------------------------------------------------------------------------
\* get_vnet_routes_from_asic_db: one iteration of the loop over the rows
\* ------------------------------------------------------------------------
\* a row is the decoded key: [vr |-> route_attrs[11], dest |-> route_attrs[3]].
\* vnet_name is the local variable of that name: it is assigned only when
\* the network of the row is not yet in vnet_routes.
asic_db_key_step(vnet_routes, vnet_name, row) ==
    IF row.vr \in vnet_vrfs_oids
    THEN LET target == vrf_oid_to_vnet_map[row.vr]
             created == target \notin DOMAIN vnet_routes
             name == IF created THEN target ELSE vnet_name
             base == IF created
                     THEN vnet_routes @@
                          (target :> [ routes |-> << >>, vrf_oid |-> row.vr ])
                     ELSE vnet_routes
         IN  [ vnet_routes |-> [ base EXCEPT ![name].routes = Append(@, row.dest) ],
               vnet_name |-> name ]
    ELSE [ vnet_routes |-> vnet_routes, vnet_name |-> vnet_name ]

\* ------------------------------------------------------------------------
\* get_vnet_routes_diff
\* ------------------------------------------------------------------------
\* An entry of the returned dict is either {'routes': [...]} or, in the
\* branch of line 274, the returned dict itself (self_ref).
RoutesEntry(l) == [ self_ref |-> FALSE, routes |-> l ]
AccumulatorEntry == [ self_ref |-> TRUE, routes |-> << >> ]

\* the routes of routes_2[vnet_name] that are not in routes_1[vnet_name],
\* in the order of routes_2
routes_not_in(routes_1, routes_2, vnet_name) ==
    LET absent(vnet_route) == vnet_route \notin Range(routes_1[vnet_name].routes)
    IN  SelectSeq(routes_2[vnet_name].routes, absent)

\* get_vnet_routes_diff creating the entry of a network before looking at
\* its routes
get_vnet_routes_diff_no_prune(routes_1, routes_2) ==
    [ vnet_name \in DOMAIN routes_2 |->
        IF vnet_name \notin DOMAIN routes_1
        THEN AccumulatorEntry
        ELSE RoutesEntry(routes_not_in(routes_1, routes_2, vnet_name)) ]

get_vnet_routes_diff(routes_1, routes_2) ==
    LET keys == { vnet_name \in DOMAIN routes_2 :
                    \/ vnet_name \notin DOMAIN routes_1
                    \/ routes_not_in(routes_1, routes_2, vnet_name) # << >> }
    IN  [ vnet_name \in keys |->
            IF vnet_name \notin DOMAIN routes_1
            THEN AccumulatorEntry
            ELSE RoutesEntry(routes_not_in(routes_1, routes_2, vnet_name)) ]

\* ------------------------------------------------------------------------
\* get_sdk_vnet_routes_diff
\* ------------------------------------------------------------------------
\* os.system() returns the wait status: exit code * 256
ExitStatuses == { 256 * c : c \in 0..MaxExitCode }

\* get_sdk_vnet_routes_diff ignoring the result of the probe
validator_unavailable_never(res) == FALSE

\* if res != 0: return routes_diff
validator_unavailable(res) == res # 0

\* routes_diff[vnet_name] = {}; routes_diff[vnet_name]['routes'] = res
\* The value stored under 'routes' is the integer returned by os.system().
SdkEntry(res) == [ routes_is_list |-> FALSE, routes |-> res ]

\* the body of the loop over routes.items(), for one network
sdk_call_step(routes_diff, vnet_name, res) ==
    IF res # 0
    THEN routes_diff @@ (vnet_name :> SdkEntry(res))
    ELSE routes_diff

\* ------------------------------------------------------------------------
\* main: the report
\* ------------------------------------------------------------------------
build_results(missed_asic, missed_app, missed_sdk) ==
    LET names == (IF missed_asic # EmptyDict THEN {"missed_in_asic_db_routes"} ELSE {})
                 \cup (IF missed_app # EmptyDict THEN {"missed_in_app_db_routes"} ELSE {})
                 \cup (IF missed_sdk # EmptyDict THEN {"missed_in_sdk_routes"} ELSE {})
    IN  [ n \in names |->
            IF n = "missed_in_asic_db_routes" THEN missed_asic
            ELSE IF n = "missed_in_app_db_routes" THEN missed_app
            ELSE missed_sdk ]

\* json.dumps() raises ValueError("Circular reference detected") when a
\* dict contains itself
json_dumps_raises(missed_asic, missed_app) ==
    \/ \E v \in DOMAIN missed_asic : missed_asic[v].self_ref
    \/ \E v \in DOMAIN missed_app : missed_app[v].self_ref

\* print_message(lvl, arg): the line is printed and sent to syslog when
\* lvl <= report_level
print_message(out, lvl, kind, value) ==
    IF lvl <= report_level
    THEN Append(out, [ lvl |-> lvl, kind |-> kind, value |-> value ])
    ELSE out

MismatchMarker == "Vnet Route Mismatch reported"

\* ------------------------------------------------------------------------
\* Inputs
\* ------------------------------------------------------------------------
\* keys of VNET_ROUTE_TABLE and VNET_ROUTE_TUNNEL_TABLE, split at ':'
AppPrefixes == { Pfx("10.1.0.0", 24), Pfx("10.2.0.0", 24) }
AppKeys == [ vnet : DOMAIN get_vnet_intfs, route : AppPrefixes ]
\* a key is unique in its table, so the concatenation of the two key lists
\* holds it at most twice
AppKeyLists ==
    { l \in SeqsOf(AppKeys, 0, MaxAppKeys) :
        \A k \in AppKeys : Occurrences(l, k) <= 2 }

\* keys of ASIC_STATE:SAI_OBJECT_TYPE_ROUTE_ENTRY, decoded; a key is unique
AsicPrefixes == { Pfx("10.1.0.0", 24), Pfx("10.1.0.5", 32) }
AsicKeys == [ vr : vnet_vrfs_oids \cup {DefaultVrfOid}, dest : AsicPrefixes ]
AsicKeyLists == { l \in SeqsOf(AsicKeys, 0, MaxAsicKeys) : Injective(l) }

\* keys of INTF_TABLE, split at ':'
IntfKeys ==
    { <<"Ethernet0">>,
      <<"Ethernet0", Pfx("10.1.0.5", 24)>>,
      <<"Vlan100", Pfx("10.1.1.5", 24)>>,
      <<"Ethernet4", Pfx("10.2.0.7", 16)>>,
      <<"Loopback0", Pfx("10.0.0.1", 32)>> }
\* the tables of a run of main: no interface configured, or all of them
MainIntfTables == { {}, IntfKeys }

\* ------------------------------------------------------------------------
\* State
\* ------------------------------------------------------------------------
VARIABLES
    pc,                        \* position of the run / of the harness
    vnet_routes_db_keys,       \* main: keys read from APP_DB
    routes_db_keys,            \* main: keys read from ASIC_DB
    all_rifs_db_keys,          \* keys of INTF_TABLE
    app_db_vnet_routes,        \* main: route set of APP_DB
    asic_db_vnet_routes,       \* main: route set of ASIC_DB (vnet_routes)
    vnet_name,                 \* local of get_vnet_routes_from_asic_db
    row_idx,                   \* next row of routes_db_keys
    missed_in_asic_db_routes,
    missed_in_app_db_routes,
    missed_in_sdk_routes,
    probe_res,                 \* << >> or <<result of the probe>>
    sdk_pending,               \* networks the loop has not visited yet
    sdk_calls,                 \* number of per-network validator calls
    emitted,                   \* messages passed to print()/syslog
    exit_status,               \* << >> while running, <<status>> after exit
    routes_1, routes_2, routes,                 \* harness of the diff
    vnet_routes, vnet_routes_before, vnet_routes_once,
    vnet_ip2me_routes                           \* harness of the filter

mainVars == << vnet_routes_db_keys, routes_db_keys, app_db_vnet_routes,
               asic_db_vnet_routes, vnet_name, row_idx,
               missed_in_asic_db_routes, missed_in_app_db_routes,
               missed_in_sdk_routes, probe_res, sdk_pending, sdk_calls,
               emitted, exit_status >>
diffVars == << routes_1, routes_2, routes >>
filterVars == << vnet_routes, vnet_routes_before, vnet_routes_once,
                 vnet_ip2me_routes >>
vars == << pc, all_rifs_db_keys, mainVars, diffVars, filterVars >>

MainIdle ==
    /\ vnet_routes_db_keys = << >>
    /\ routes_db_keys = << >>
    /\ app_db_vnet_routes = EmptyDict
    /\ asic_db_vnet_routes = EmptyDict
    /\ vnet_name = "Vnet1"
    /\ row_idx = 1
    /\ missed_in_asic_db_routes = EmptyDict
    /\ missed_in_app_db_routes = EmptyDict
    /\ missed_in_sdk_routes = EmptyDict
    /\ probe_res = << >>
    /\ sdk_pending = {}
    /\ sdk_calls = 0
    /\ emitted = << >>
    /\ exit_status = << >>

DiffIdle ==
    /\ routes_1 = EmptyDict
    /\ routes_2 = EmptyDict
    /\ routes = EmptyDict

FilterIdle ==
    /\ vnet_routes = EmptyDict
    /\ vnet_routes_before = EmptyDict
    /\ vnet_routes_once = EmptyDict
    /\ vnet_ip2me_routes = {}

\* ------------------------------------------------------------------------
\* main
\* ------------------------------------------------------------------------
Init ==
    /\ pc = "main"
    /\ vnet_routes_db_keys \in AppKeyLists
    /\ routes_db_keys \in AsicKeyLists
    /\ all_rifs_db_keys \in MainIntfTables
    /\ app_db_vnet_routes = EmptyDict
    /\ asic_db_vnet_routes = EmptyDict
    /\ vnet_name = "Vnet1"
    /\ row_idx = 1
    /\ missed_in_asic_db_routes = EmptyDict
    /\ missed_in_app_db_routes = EmptyDict
    /\ missed_in_sdk_routes = EmptyDict
    /\ probe_res = << >>
    /\ sdk_pending = {}
    /\ sdk_calls = 0
    /\ emitted = << >>
    /\ exit_status = << >>
    /\ DiffIdle
    /\ FilterIdle

\* app_db_vnet_routes = get_vnet_routes_from_app_db(), then the part of
\* get_vnet_routes_from_asic_db before the loop over the rows.  The loop
\* that builds vrf_oid_to_vnet_map leaves its last key in vnet_name; the
\* order of a dict is not fixed, so it is any of the keys.
GetAppRoutes ==
    /\ pc = "main"
    /\ app_db_vnet_routes' = get_vnet_routes_from_app_db(vnet_routes_db_keys)
    /\ vnet_name' \in DOMAIN get_vnet_intfs
    /\ asic_db_vnet_routes' = EmptyDict
    /\ row_idx' = 1
    /\ pc' = "asic_rows"
    /\ UNCHANGED << vnet_routes_db_keys, routes_db_keys, all_rifs_db_keys,
                    missed_in_asic_db_routes, missed_in_app_db_routes,
                    missed_in_sdk_routes, probe_res, sdk_pending, sdk_calls,
                    emitted, exit_status, diffVars, filterVars >>

\* get_vnet_routes_from_asic_db: one row of routes_db_keys
AsicRow ==
    /\ pc = "asic_rows"
    /\ row_idx <= Len(routes_db_keys)
    /\ LET after == asic_db_key_step(asic_db_vnet_routes, vnet_name,
                                     routes_db_keys[row_idx])
       IN  /\ asic_db_vnet_routes' = after.vnet_routes
           /\ vnet_name' = after.vnet_name
    /\ row_idx' = row_idx + 1
    /\ UNCHANGED << pc, vnet_routes_db_keys, routes_db_keys, all_rifs_db_keys,
                    app_db_vnet_routes,
                    missed_in_asic_db_routes, missed_in_app_db_routes,
                    missed_in_sdk_routes, probe_res, sdk_pending, sdk_calls,
                    emitted, exit_status, diffVars, filterVars >>

\* get_vnet_routes_from_asic_db: after the last row,
\* filter_out_vnet_ip2me_routes(vnet_routes) and return
AsicFilter ==
    /\ pc = "asic_rows"
    /\ row_idx > Len(routes_db_keys)
    /\ asic_db_vnet_routes' =
           filter_out_vnet_ip2me_routes(asic_db_vnet_routes, all_rifs_db_keys)
    /\ pc' = "diff"
    /\ UNCHANGED << vnet_routes_db_keys, routes_db_keys, all_rifs_db_keys,
                    app_db_vnet_routes, vnet_name, row_idx,
                    missed_in_asic_db_routes, missed_in_app_db_routes,
                    missed_in_sdk_routes, probe_res, sdk_pending, sdk_calls,
                    emitted, exit_status, diffVars, filterVars >>

\* the two calls of get_vnet_routes_diff in main
Diff ==
    /\ pc = "diff"
    /\ missed_in_asic_db_routes' =
           get_vnet_routes_diff(asic_db_vnet_routes, app_db_vnet_routes)
    /\ missed_in_app_db_routes' =
           get_vnet_routes_diff(app_db_vnet_routes, asic_db_vnet_routes)
    /\ pc' = "sdk_probe"
    /\ UNCHANGED << vnet_routes_db_keys, routes_db_keys, all_rifs_db_keys,
                    app_db_vnet_routes, asic_db_vnet_routes, vnet_name,
                    row_idx, missed_in_sdk_routes, probe_res, sdk_pending,
                    sdk_calls, emitted, exit_status, diffVars, filterVars >>

\* get_sdk_vnet_routes_diff: the probe 'docker exec syncd test -f ...'
SdkProbe ==
    /\ pc = "sdk_probe"
    /\ \E res \in ExitStatuses :
        /\ probe_res' = <<res>>
        /\ IF validator_unavailable(res)
           THEN /\ pc' = "report"
                /\ sdk_pending' = {}
           ELSE /\ pc' = "sdk_loop"
                /\ sdk_pending' = DOMAIN asic_db_vnet_routes
    /\ missed_in_sdk_routes' = EmptyDict
    /\ UNCHANGED << vnet_routes_db_keys, routes_db_keys, all_rifs_db_keys,
                    app_db_vnet_routes, asic_db_vnet_routes, vnet_name,
                    row_idx, missed_in_asic_db_routes,
                    missed_in_app_db_routes, sdk_calls, emitted, exit_status,
                    diffVars, filterVars >>

\* get_sdk_vnet_routes_diff: the validator call for one network; the
\* networks are visited in the order of the dict, which is not fixed
SdkCall ==
    /\ pc = "sdk_loop"
    /\ \E v \in sdk_pending, res \in ExitStatuses :
        /\ missed_in_sdk_routes' = sdk_call_step(missed_in_sdk_routes, v, res)
        /\ sdk_pending' = sdk_pending \ {v}
    /\ sdk_calls' = sdk_calls + 1
    /\ UNCHANGED << pc, vnet_routes_db_keys, routes_db_keys, all_rifs_db_keys,
                    app_db_vnet_routes, asic_db_vnet_routes, vnet_name,
                    row_idx, missed_in_asic_db_routes,
                    missed_in_app_db_routes, probe_res, emitted, exit_status,
                    diffVars, filterVars >>

\* get_sdk_vnet_routes_diff: return routes_diff
SdkReturn ==
    /\ pc = "sdk_loop"
    /\ sdk_pending = {}
    /\ pc' = "report"
    /\ UNCHANGED << vnet_routes_db_keys, routes_db_keys, all_rifs_db_keys,
                    app_db_vnet_routes, asic_db_vnet_routes, vnet_name,
                    row_idx, missed_in_asic_db_routes,
                    missed_in_app_db_routes, missed_in_sdk_routes, probe_res,
                    sdk_pending, sdk_calls, emitted, exit_status,
                    diffVars, filterVars >>

\* main, from 'res = {}' to sys.exit(rc).  json.dumps() is evaluated before
\* print_message is entered; when it raises, nothing is printed and the
\* interpreter ends the process.
Report ==
    /\ pc = "report"
    /\ LET results == build_results(missed_in_asic_db_routes,
                                    missed_in_app_db_routes,
                                    missed_in_sdk_routes)
       IN  IF results = EmptyDict
           THEN /\ emitted' = emitted
                /\ exit_status' = <<RC_OK>>
           ELSE IF json_dumps_raises(missed_in_asic_db_routes,
                                     missed_in_app_db_routes)
           THEN /\ emitted' = emitted
                /\ exit_status' = <<UncaughtExceptionStatus>>
           ELSE /\ emitted' =
                      print_message(
                          print_message(emitted, LOG_ERR, "json",
                                        [ results |-> results ]),
                          LOG_ERR, "str", MismatchMarker)
                /\ exit_status' = <<RC_ERR>>
    /\ pc' = "exited"
    /\ UNCHANGED << vnet_routes_db_keys, routes_db_keys, all_rifs_db_keys,
                    app_db_vnet_routes, asic_db_vnet_routes, vnet_name,
                    row_idx, missed_in_asic_db_routes,
                    missed_in_app_db_routes, missed_in_sdk_routes, probe_res,
                    sdk_pending, sdk_calls, diffVars, filterVars >>

Next ==
    \/ GetAppRoutes
    \/ AsicRow
    \/ AsicFilter
    \/ Diff
    \/ SdkProbe
    \/ SdkCall
    \/ SdkReturn
    \/ Report

Spec == Init /\ [][Next]_vars

\* ------------------------------------------------------------------------
\* get_vnet_routes_diff applied to arbitrary route sets
\* ------------------------------------------------------------------------
DiffPrefixes == { Pfx("10.1.0.0", 24), Pfx("10.2.0.0", 24) }

\* route sets: a network that is a key has at least one route
RouteSets(prefixes, lists) ==
    UNION { [ nets -> [ routes : lists, vrf_oid : vnet_vrfs_oids ] ] :
              nets \in SUBSET DOMAIN get_vnet_intfs }

DiffRouteSets ==
    { rs \in RouteSets(DiffPrefixes, SeqsOf(DiffPrefixes, 1, MaxDiffRoutes)) :
        \A v \in DOMAIN rs : vrf_oid_to_vnet_map[rs[v].vrf_oid] = v }

InitDiff ==
    /\ pc = "diff_call"
    /\ routes_1 \in DiffRouteSets
    /\ routes_2 \in DiffRouteSets
    /\ routes = EmptyDict
    /\ all_rifs_db_keys = {}
    /\ MainIdle
    /\ FilterIdle

\* routes = get_vnet_routes_diff(routes_1, routes_2)
DiffCall ==
    /\ pc = "diff_call"
    /\ routes' = get_vnet_routes_diff(routes_1, routes_2)
    /\ pc' = "diff_returned"
    /\ UNCHANGED << routes_1, routes_2, all_rifs_db_keys, mainVars, filterVars >>

NextDiff == DiffCall

SpecDiff == InitDiff /\ [][NextDiff]_vars

\* ------------------------------------------------------------------------
\* filter_out_vnet_ip2me_routes applied to arbitrary hardware route sets
\* ------------------------------------------------------------------------
FilterPrefixes ==
    { Pfx("10.1.0.0", 24), Pfx("10.1.0.5", 32), Pfx("10.1.1.5", 32),
      Pfx("10.2.0.7", 32) }

\* the rows of one virtual router are distinct, and so are the routes of a
\* network
FilterRouteSets ==
    { rs \in RouteSets(FilterPrefixes,
                       { l \in SeqsOf(FilterPrefixes, 1, MaxFilterRoutes) :
                           Injective(l) }) :
        \A v \in DOMAIN rs : vrf_oid_to_vnet_map[rs[v].vrf_oid] = v }

InitFilter ==
    /\ pc = "filter_call"
    /\ vnet_routes \in FilterRouteSets
    /\ vnet_routes_before = vnet_routes
    /\ vnet_routes_once = EmptyDict
    /\ vnet_ip2me_routes = {}
    /\ all_rifs_db_keys \in SUBSET IntfKeys
    /\ MainIdle
    /\ DiffIdle

\* filter_out_vnet_ip2me_routes(vnet_routes), first call
FilterOnce ==
    /\ pc = "filter_call"
    /\ vnet_ip2me_routes' = build_vnet_ip2me_routes(all_rifs_db_keys)
    /\ vnet_routes' = filter_out_vnet_ip2me_routes(vnet_routes, all_rifs_db_keys)
    /\ vnet_routes_once' = vnet_routes'
    /\ pc' = "filtered_once"
    /\ UNCHANGED << vnet_routes_before, all_rifs_db_keys, mainVars, diffVars >>

\* filter_out_vnet_ip2me_routes(vnet_routes), second call on the same dict
FilterAgain ==
    /\ pc = "filtered_once"
    /\ vnet_routes' = filter_out_vnet_ip2me_routes(vnet_routes, all_rifs_db_keys)
    /\ pc' = "filtered_twice"
    /\ UNCHANGED << vnet_routes_before, vnet_routes_once, vnet_ip2me_routes,
                    all_rifs_db_keys, mainVars, diffVars >>

NextFilter == FilterOnce \/ FilterAgain

SpecFilter == InitFilter /\ [][NextFilter]_vars

\* ------------------------------------------------------------------------
\* Properties
\* ------------------------------------------------------------------------
\* the prefixes of routes_2[v] that are not prefixes of routes_1[v], as a set
MissingSet(r1, r2, v) ==
    { p \in Range(r2[v].routes) : p \notin Range(r1[v].routes) }

\* C1: a network that is a key of routes_2 (candidate) and not of routes_1
\* (reference) is mapped by get_vnet_routes_diff to exactly the list of its
\* routes in routes_2.
C1_FullNetworkMiss ==
    pc = "diff_returned" =>
        \A v \in (DOMAIN routes_2) \ (DOMAIN routes_1) :
            /\ v \in DOMAIN routes
            /\ ~routes[v].self_ref
            /\ routes[v].routes = routes_2[v].routes

\* C2: for a network that is a key of both route sets the result holds
\* exactly the prefixes of routes_2 that are not in routes_1, the network
\* is no key of the result when there is none, and diff(R, R) has no keys.
C2_CommonNetworkDiff ==
    pc = "diff_returned" =>
        /\ \A v \in (DOMAIN routes_1) \cap (DOMAIN routes_2) :
              IF MissingSet(routes_1, routes_2, v) = {}
              THEN v \notin DOMAIN routes
              ELSE /\ v \in DOMAIN routes
                   /\ ~routes[v].self_ref
                   /\ Range(routes[v].routes) = MissingSet(routes_1, routes_2, v)
        /\ (routes_1 = routes_2 => routes = EmptyDict)

\* a network of both route sets with some, but not all, of its routes
\* reported, and another call with twice the same route set
C2_Witness ==
    /\ pc = "diff_returned"
    /\ \E v \in (DOMAIN routes_1) \cap (DOMAIN routes_2) :
          /\ v \in DOMAIN routes
          /\ Range(routes[v].routes) # {}
          /\ Range(routes[v].routes) # Range(routes_2[v].routes)
    /\ \E v \in (DOMAIN routes_1) \cap (DOMAIN routes_2) : v \notin DOMAIN routes

AllMissedEmpty ==
    /\ missed_in_asic_db_routes = EmptyDict
    /\ missed_in_app_db_routes = EmptyDict
    /\ missed_in_sdk_routes = EmptyDict

\* C3: a run that has computed the three mappings exits with RC_OK exactly
\* when the three are empty, and with RC_ERR when one of them is not.
C3_ExitCode ==
    pc = "exited" =>
        /\ (exit_status = <<RC_OK>>) <=> AllMissedEmpty
        /\ ~AllMissedEmpty => exit_status = <<RC_ERR>>

\* C4: when the run has exited and one of the three mappings is not empty,
\* the report was emitted as a JSON message followed by the marker 'Vnet
\* Route Mismatch reported'; when the three are empty nothing was emitted.
C4_ReportEmitted ==
    pc = "exited" =>
        IF AllMissedEmpty
        THEN emitted = << >>
        ELSE /\ Len(emitted) = 2
             /\ emitted[1].kind = "json"
             /\ emitted[1].value.results =
                    build_results(missed_in_asic_db_routes,
                                  missed_in_app_db_routes,
                                  missed_in_sdk_routes)
             /\ emitted[2].kind = "str"
             /\ emitted[2].value = MismatchMarker

\* the /32 prefixes of the addresses configured on the interfaces of v
SelfPrefixes(v, keys) ==
    { Pfx(k[2].addr, 32) :
        k \in { k \in keys : Len(k) = 2 /\ k[1] \in Range(get_vnet_intfs[v]) } }

WithoutSelfPrefixes(l, v, keys) ==
    LET keep(route) == route \notin SelfPrefixes(v, keys)
    IN  SelectSeq(l, keep)

\* C5: after one call of filter_out_vnet_ip2me_routes the routes of every
\* network left are its routes before the call without the self prefixes
\* of the interfaces of that network, in the same order.
C5_FilterExact ==
    pc = "filtered_once" =>
        \A v \in DOMAIN vnet_routes_once :
            vnet_routes_once[v].routes =
                WithoutSelfPrefixes(vnet_routes_before[v].routes, v,
                                    all_rifs_db_keys)

\* C6: a second call of filter_out_vnet_ip2me_routes leaves the route set
\* as the first call left it.
C6_FilterIdempotent ==
    pc = "filtered_twice" => vnet_routes = vnet_routes_once

\* C7: when the probe of the SDK validator fails, no validator call is made
\* for a network, missed_in_sdk_routes is empty, and the run exits with
\* RC_OK when the two other mappings are empty.
C7_ValidatorUnavailable ==
    (probe_res # << >> /\ probe_res[1] # 0) =>
        /\ sdk_calls = 0
        /\ missed_in_sdk_routes = EmptyDict
        /\ (pc = "exited" /\ missed_in_asic_db_routes = EmptyDict
                          /\ missed_in_app_db_routes = EmptyDict)
               => exit_status = <<RC_OK>>

\* the probe failed, ASIC_DB held VNET routes after the filter, and the run
\* exited with RC_OK
C7_Witness ==
    /\ pc = "exited"
    /\ probe_res # << >>
    /\ probe_res[1] # 0
    /\ asic_db_vnet_routes # EmptyDict
    /\ exit_status = <<RC_OK>>

\* C8: the value under 'routes' of an entry of missed_in_sdk_routes is a
\* list of route prefixes, all of them routes of that network in the
\* filtered route set of ASIC_DB.
C8_SdkMissedRoutes ==
    \A v \in DOMAIN missed_in_sdk_routes :
        /\ missed_in_sdk_routes[v].routes_is_list
        /\ Range(missed_in_sdk_routes[v].routes)
               \subseteq Range(asic_db_vnet_routes[v].routes)

\* C9: for every address configured on an interface of a VNET, whatever its
\* prefix length, vnet_ip2me_routes holds that address with the length 32.
C9_HostMask ==
    pc \in {"filtered_once", "filtered_twice"} =>
        \A k \in all_rifs_db_keys :
            (Len(k) = 2 /\ k[1] \in flat_vnet_intfs)
                => Pfx(k[2].addr, 32) \in vnet_ip2me_routes

\* the prefixes of the rows processed so far whose virtual router is the
\* one of network v, in the order of the rows
RowsOfVnet(v) ==
    LET done == SubSeq(routes_db_keys, 1, row_idx - 1)
        mine(row) == row.vr \in vnet_vrfs_oids /\ vrf_oid_to_vnet_map[row.vr] = v
        rows == SelectSeq(done, mine)
    IN  [ i \in 1..Len(rows) |-> rows[i].dest ]

\* C10: while get_vnet_routes_from_asic_db walks the rows (before the
\* filter), each network holds exactly the prefixes of the rows of its own
\* virtual router, a network without rows is no key, and vrf_oid is the
\* virtual router of the network.
C10_RowsGrouped ==
    pc = "asic_rows" =>
        \A v \in DOMAIN get_vnet_intfs :
            IF RowsOfVnet(v) = << >>
            THEN v \notin DOMAIN asic_db_vnet_routes
            ELSE /\ v \in DOMAIN asic_db_vnet_routes
                 /\ asic_db_vnet_routes[v].routes = RowsOfVnet(v)
                 /\ vrf_oid_to_vnet_map[asic_db_vnet_routes[v].vrf_oid] = v

====
